---- MODULE Spec2Model ----
(***************************************************************************)
(* Sglty::Matrix<T, Rows, Cols> (src/Singularity/Matrix.hpp) and the lazy  *)
(* subtraction node Sglty::Expr::Sub (src/unnamed/part_000).               *)
(*                                                                         *)
(* A value of the library is a record                                      *)
(*   [kind, rows, cols, data_]                                             *)
(* kind = "Matrix": an instance of Matrix<T, rows, cols>; data_ is the     *)
(*                  std::array<T, rows*cols>, data_[k+1] holding offset k. *)
(* kind = "T"     : a bare element of type T (data_ = <<v>>).              *)
(* kind = "none"  : no object (nothing constructed / ill-formed program).  *)
(* T is an exact arithmetic type: elements are unbounded integers.         *)
(***************************************************************************)
EXTENDS Integers, Sequences, FiniteSets

\* Largest compile-time dimension (Rows, Cols) explored.
MaxDim == 2
\* Largest offset added to the generated element values / scalars.
MaxVal == 1
\* Largest number of element writes applied to the operands of an expression.
MaxWrites == 1
\* Deepest nesting of Sub nodes built.
MaxDepth == 2
\* Largest number of statements run on the named objects.
MaxSteps == 2

VARIABLES
  ctorOp,       \* which constructor ran: "none", "nested", "flat"
  ctorShape,    \* <<Rows, Cols>> of the type being constructed
  ctorList,     \* the braced literal handed to the constructor
  ctorOutcome,  \* "none", "constructed", "invalid_argument", "aborted"
  ctorObj,      \* the instance the caller holds afterwards (kind "none" if none)
  ctorPartial,  \* data_ of the object under construction when the constructor left
  ctorOverrun,  \* number of elements std::copy wrote past data_
  ctorRead,     \* last element read back through operator()(row, col)
  opA, opB, opC,  \* operand instances of the arithmetic expressions
  writes,       \* element writes applied to the operands so far
  mulOp,        \* last expression evaluated: "none", "mul", "idl", "idr", "assoc"
  mulRes,       \* its value
  mulRes2,      \* for "assoc": the value of the right-nested expression
  node,         \* the lazy expression built so far (kind "none" before the first)
  subQuery,     \* last element query made on node
  inst,         \* the named Matrix objects: [live, rows, cols, blk]
  mem,          \* element storage: block -> contents of a data_ array
  last,         \* the last statement: its operator, its receiver, the storage of
                \* the value it returned, and (chained compound assignments) the
                \* receiver's elements had the inner operator returned *this itself
  steps         \* statements executed so far

ctorVars == <<ctorOp, ctorShape, ctorList, ctorOutcome, ctorObj, ctorPartial,
              ctorOverrun, ctorRead>>

mulVars == <<opA, opB, opC, writes, mulOp, mulRes, mulRes2>>

subVars == <<node, subQuery>>

valVars == <<inst, mem, last, steps>>

vars == <<ctorVars, mulVars, subVars, valVars>>

Dim == 1..MaxDim

----------------------------------------------------------------------------
\* Values

NoObject == [kind |-> "none", rows |-> 0, cols |-> 0, data_ |-> << >>]

Scalar(v) == [kind |-> "T", rows |-> 0, cols |-> 0, data_ |-> <<v>>]

MkMatrix(R, C, data) == [kind |-> "Matrix", rows |-> R, cols |-> C, data_ |-> data]

\* std::array<T, Rows() * Cols()> data_{}: value-initialised, all zero.
ZeroData(R, C) == [k \in 1..(R * C) |-> 0]

\* Matrix() = default
DefaultCtor(R, C) == MkMatrix(R, C, ZeroData(R, C))

\* Dims(): Rows() == 1 ? Cols() : Rows()
Dims(R, C) == IF R = 1 THEN C ELSE R

IsRowVector(m) == m.rows = 1
IsColVector(m) == m.cols = 1
IsScalar(m) == IsRowVector(m) /\ IsColVector(m)
IsVector(m) == IsRowVector(m) \/ IsColVector(m)

\* A plausible slip: the column stride is dropped.
OffsetNoStride(row, col, R) == row + col

\* operator()(row, col): data_[row + col * Rows()]
Offset(row, col, R) == row + col * R

At(m, row, col) == m.data_[Offset(row, col, m.rows) + 1]

\* operator()(index): data_[index]
AtIndex(m, index) == m.data_[index + 1]

\* m(row, col) = v
SetAt(data, R, row, col, v) == [data EXCEPT ![Offset(row, col, R) + 1] = v]

----------------------------------------------------------------------------
\* Constructors from braced literals

\* A plausible slip: only an over-long row is rejected.
ColCountMismatchLenient(row, C) == Len(row) > C

\* if (list.size() != Rows())
RowCountMismatch(list, R) == Len(list) # R

\* if (row.size() != Cols())
ColCountMismatch(row, C) == Len(row) # C

RECURSIVE NestedCtorCols(_, _, _, _, _)
\* for (auto& e : row) { (*this)(row_index, col_index) = e; col_index++; }
NestedCtorCols(data, R, row, row_index, col_index) ==
  IF col_index < Len(row)
  THEN NestedCtorCols(SetAt(data, R, row_index, col_index, row[col_index + 1]),
                      R, row, row_index, col_index + 1)
  ELSE data

RECURSIVE NestedCtorRows(_, _, _, _, _)
\* for (auto& row : list) { check; copy the row; row_index++; }
NestedCtorRows(data, R, C, list, row_index) ==
  IF row_index < Len(list)
  THEN IF ColCountMismatch(list[row_index + 1], C)
       THEN [threw |-> TRUE, data_ |-> data]
       ELSE NestedCtorRows(NestedCtorCols(data, R, list[row_index + 1], row_index, 0),
                           R, C, list, row_index + 1)
  ELSE [threw |-> FALSE, data_ |-> data]

\* Matrix(const std::initializer_list<std::initializer_list<T>>&)
NestedCtorRun(R, C, list) ==
  IF RowCountMismatch(list, R)
  THEN [threw |-> TRUE, data_ |-> ZeroData(R, C)]
  ELSE NestedCtorRows(ZeroData(R, C), R, C, list, 0)

RECURSIVE FlatCopy(_, _, _)
\* std::copy(list.begin(), list.end(), data_.begin()), the part inside data_
FlatCopy(data, list, k) ==
  IF k < Len(list) /\ k < Len(data)
  THEN FlatCopy([data EXCEPT ![k + 1] = list[k + 1]], list, k + 1)
  ELSE data

\* elements std::copy writes beyond data_.end()
FlatOverrun(list, R, C) == IF Len(list) > R * C THEN Len(list) - R * C ELSE 0

\* Generated literals: row r, position k holds base + r*(MaxDim+2) + k + 1, so
\* that all supplied values differ from each other and from the default 0.
TaggedRow(len, r, base) == [k \in 1..len |-> base + (r - 1) * (MaxDim + 2) + k]
TaggedList(lens, base) == [r \in 1..Len(lens) |-> TaggedRow(lens[r], r, base)]

ListLen == 0..(MaxDim + 1)
LenSeqs == UNION {[1..n -> ListLen] : n \in ListLen}

Names == {"a", "b", "c"}
\* Each object embeds its own array; "tmp" is the array of a temporary or local.
Blocks == Names \cup {"tmp"}
NoInst == [live |-> FALSE, rows |-> 0, cols |-> 0, blk |-> "tmp"]
NoStatement == [op |-> "none", recv |-> "a", blk |-> "tmp", expect |-> << >>]

NoQuery == [done |-> FALSE, i |-> 0, j |-> 0, compiles |-> FALSE, val |-> 0]

NoRead == [done |-> FALSE, row |-> 0, col |-> 0, val |-> 0]

CtorIdle ==
  /\ ctorOp = "none"
  /\ ctorShape = <<1, 1>>
  /\ ctorList = << >>
  /\ ctorOutcome = "none"
  /\ ctorObj = NoObject
  /\ ctorPartial = << >>
  /\ ctorOverrun = 0
  /\ ctorRead = NoRead

MulIdle ==
  /\ opA = NoObject /\ opB = NoObject /\ opC = NoObject
  /\ writes = 0 /\ mulOp = "none" /\ mulRes = NoObject /\ mulRes2 = NoObject

SubIdle == node = NoObject /\ subQuery = NoQuery

ValIdle ==
  /\ inst = [n \in Names |-> NoInst]
  /\ mem = [k \in Blocks |-> << >>]
  /\ last = NoStatement
  /\ steps = 0

CtorInit == CtorIdle /\ MulIdle /\ SubIdle /\ ValIdle

\* Matrix<T, R, C> m{{...}, {...}}; requires(R > 1 && C > 1)
NestedCtor ==
  /\ ctorOp = "none"
  /\ \E R \in Dim, C \in Dim, lens \in LenSeqs, base \in 0..MaxVal :
       /\ R > 1 /\ C > 1
       /\ LET list == TaggedList(lens, base)
              run == NestedCtorRun(R, C, list)
          IN /\ ctorOp' = "nested"
             /\ ctorShape' = <<R, C>>
             /\ ctorList' = list
             /\ ctorOutcome' = IF run.threw THEN "invalid_argument" ELSE "constructed"
             /\ ctorObj' = IF run.threw THEN NoObject ELSE MkMatrix(R, C, run.data_)
             /\ ctorPartial' = run.data_
             /\ ctorOverrun' = 0
  /\ UNCHANGED <<ctorRead, mulVars, subVars, valVars>>

\* Matrix<T, R, C> v{...}; requires(R == 1 || C == 1).  Nothing compares
\* list.size() with data_.size(); writing past data_ is undefined behaviour:
\* either the stray writes go unnoticed and construction completes, or the
\* process is stopped.
FlatCtor ==
  /\ ctorOp = "none"
  /\ \E R \in Dim, C \in Dim, n \in ListLen, base \in 0..MaxVal,
        ub \in {"constructed", "aborted"} :
       /\ R = 1 \/ C = 1
       /\ LET list == TaggedRow(n, 1, base)
              data == FlatCopy(ZeroData(R, C), list, 0)
              over == FlatOverrun(list, R, C)
              out  == IF over > 0 THEN ub ELSE "constructed"
          IN /\ ctorOp' = "flat"
             /\ ctorShape' = <<R, C>>
             /\ ctorList' = list
             /\ ctorOutcome' = out
             /\ ctorObj' = IF out = "constructed" THEN MkMatrix(R, C, data) ELSE NoObject
             /\ ctorPartial' = data
             /\ ctorOverrun' = over
  /\ UNCHANGED <<ctorRead, mulVars, subVars, valVars>>

\* m(row, col) on the constructed instance, indices in range
ReadBack ==
  /\ ctorOutcome = "constructed"
  /\ \E row \in 0..(ctorObj.rows - 1), col \in 0..(ctorObj.cols - 1) :
       ctorRead' = [done |-> TRUE, row |-> row, col |-> col,
                    val |-> At(ctorObj, row, col)]
  /\ UNCHANGED <<ctorOp, ctorShape, ctorList, ctorOutcome, ctorObj, ctorPartial,
                 ctorOverrun, mulVars, subVars, valVars>>

CtorNext == NestedCtor \/ FlatCtor \/ ReadBack

SpecCtor == CtorInit /\ [][CtorNext]_vars

----------------------------------------------------------------------------
\* Arithmetic

\* RowVector<T, Cols()> GetRowVector(row): result(i) = (*this)(row, i)
GetRowVector(m, row) ==
  MkMatrix(1, m.cols, [i1 \in 1..m.cols |-> At(m, row, i1 - 1)])

\* ColVector<T, Rows()> GetColVector(col): result(i) = (*this)(i, col)
GetColVector(m, col) ==
  MkMatrix(m.rows, 1, [i1 \in 1..m.rows |-> At(m, i1 - 1, col)])

RECURSIVE IdentityLoop(_, _, _)
\* for (i = 0; i < Rows(); i++) result(i, i) = 1;
IdentityLoop(data, n, i) ==
  IF i < n THEN IdentityLoop(SetAt(data, n, i, i, 1), n, i + 1) ELSE data

\* A plausible slip: the loop starts at 1 and misses the first diagonal element.
IdentitySkipFirst(n) == MkMatrix(n, n, IdentityLoop(ZeroData(n, n), n, 1))

\* static constexpr Matrix Identity() requires(Rows() == Cols())
Identity(n) == MkMatrix(n, n, IdentityLoop(ZeroData(n, n), n, 0))

RECURSIVE PlusAssignLoop(_, _, _)
\* operator+=: (*this)(i, j) += other(i, j) for every i, j (k runs over them)
PlusAssignLoop(data, other, k) ==
  IF k < other.rows * other.cols
  THEN LET i == k \div other.cols
           j == k % other.cols
           o == Offset(i, j, other.rows) + 1
       IN PlusAssignLoop([data EXCEPT ![o] = data[o] + At(other, i, j)], other, k + 1)
  ELSE data

\* operator*=: data_[i] *= scalar for every i
TimesAssignData(data, scalar) == [k \in 1..Len(data) |-> data[k] * scalar]

\* operator+: auto result(*this); return result += other;
Plus(x, y) == MkMatrix(x.rows, x.cols, PlusAssignLoop(x.data_, y, 0))

\* operator*(const T scalar): auto result(*this); return result *= scalar;
Scale(x, scalar) == MkMatrix(x.rows, x.cols, TimesAssignData(x.data_, scalar))

RECURSIVE DotLoop(_, _, _, _)
\* for (i = 0; i < Cols(); i++) result += (*this)(i) * other(i);
DotLoop(x, y, i, result) ==
  IF i < x.cols
  THEN DotLoop(x, y, i + 1, result + AtIndex(x, i) * AtIndex(y, i))
  ELSE result

\* A plausible slip: "=" for "+=", only the last product survives.
DotLastOnly(x, y) == AtIndex(x, x.cols - 1) * AtIndex(y, x.cols - 1)

\* T operator*(const ColVector<T, Cols()>& other) const requires(IsRowVector())
Dot(x, y) == DotLoop(x, y, 0, 0)

RECURSIVE ProductLoop(_, _, _, _)
\* result(i, j) = GetRowVector(i) * other.GetColVector(j) for every i, j
ProductLoop(data, x, y, k) ==
  IF k < x.rows * y.cols
  THEN LET i == k \div y.cols
           j == k % y.cols
       IN ProductLoop(SetAt(data, x.rows, i, j,
                            Dot(GetRowVector(x, i), GetColVector(y, j))),
                      x, y, k + 1)
  ELSE data

\* template <size_t OtherCols> auto operator*(const Matrix<T, Cols(), OtherCols>&)
Product(x, y) ==
  MkMatrix(x.rows, y.cols, ProductLoop(ZeroData(x.rows, y.cols), x, y, 0))

\* operator T() const requires(IsScalar()); a bare T is itself
ToT(v) == v.data_[1]
ConvertsToT(v) == v.kind = "T" \/ (v.kind = "Matrix" /\ IsScalar(v))

\* Which operator* overloads accept (x, y), x a Matrix
DotViable(x, y) ==
  y.kind = "Matrix" /\ IsRowVector(x) /\ y.rows = x.cols /\ y.cols = 1
ProductViable(x, y) == y.kind = "Matrix" /\ y.rows = x.cols
ScaleViable(x, y) == ConvertsToT(y)

\* The expression x * y: overload resolution among the three member operator*
\* (the non-template exact match before the template, both before the overload
\* that needs the conversion to T), the built-in T * T when x is a bare T, and
\* an ill-formed program (kind "none") when nothing is viable.
Mul(x, y) ==
  IF x.kind = "Matrix"
  THEN IF DotViable(x, y) THEN Scalar(Dot(x, y))
       ELSE IF ProductViable(x, y) THEN Product(x, y)
       ELSE IF ScaleViable(x, y) THEN Scale(x, ToT(y))
       ELSE NoObject
  ELSE IF x.kind = "T" /\ ConvertsToT(y) THEN Scalar(ToT(x) * ToT(y))
  ELSE NoObject

\* An operand filled with base + 1, base + 2, ... in storage order.
SeedData(R, C, base) == [k \in 1..(R * C) |-> base + k]
Seeded(R, C, base) == MkMatrix(R, C, SeedData(R, C, base))

\* Operands L (R x K) and M (K x C) of a product.
MulInit ==
  /\ CtorIdle /\ SubIdle /\ ValIdle
  /\ \E R \in Dim, K \in Dim, C \in Dim, ba \in 0..MaxVal, bb \in 0..MaxVal :
       /\ opA = Seeded(R, K, ba)
       /\ opB = Seeded(K, C, bb)
  /\ opC = NoObject
  /\ writes = 0 /\ mulOp = "none" /\ mulRes = NoObject /\ mulRes2 = NoObject

\* Operands A (P x Q), B (Q x S), C (S x U) of a chain of products.
ChainInit ==
  /\ CtorIdle /\ SubIdle /\ ValIdle
  /\ \E P \in Dim, Q \in Dim, S \in Dim, U \in Dim, ba \in 0..MaxVal :
       /\ opA = Seeded(P, Q, ba)
       /\ opB = Seeded(Q, S, ba + 1)
       /\ opC = Seeded(S, U, ba + 2)
  /\ writes = 0 /\ mulOp = "none" /\ mulRes = NoObject /\ mulRes2 = NoObject

WriteInto(m, v) ==
  {MkMatrix(m.rows, m.cols, SetAt(m.data_, m.rows, i, j, v)) :
     i \in 0..(m.rows - 1), j \in 0..(m.cols - 1)}

\* x(i, j) = v on one of the operands, before the expression is evaluated
WriteElem ==
  /\ mulOp = "none"
  /\ writes < MaxWrites
  /\ writes' = writes + 1
  /\ \E v \in 0..MaxVal :
       \/ \E m \in WriteInto(opA, v) : opA' = m /\ UNCHANGED <<opB, opC>>
       \/ \E m \in WriteInto(opB, v) : opB' = m /\ UNCHANGED <<opA, opC>>
       \/ \E m \in WriteInto(opC, v) : opC' = m /\ UNCHANGED <<opA, opB>>
  /\ UNCHANGED <<mulOp, mulRes, mulRes2, ctorVars, subVars, valVars>>

\* auto r = L * M;
Multiply ==
  /\ mulOp = "none"
  /\ mulOp' = "mul"
  /\ mulRes' = Mul(opA, opB)
  /\ UNCHANGED <<opA, opB, opC, writes, mulRes2, ctorVars, subVars, valVars>>

\* auto r = Matrix<T, n, n>::Identity() * M;  n = M.Rows()
IdentityLeft ==
  /\ mulOp = "none"
  /\ mulOp' = "idl"
  /\ mulRes' = Mul(Identity(opA.rows), opA)
  /\ UNCHANGED <<opA, opB, opC, writes, mulRes2, ctorVars, subVars, valVars>>

\* auto r = M * Matrix<T, n, n>::Identity();  n = M.Cols()
IdentityRight ==
  /\ mulOp = "none"
  /\ mulOp' = "idr"
  /\ mulRes' = Mul(opA, Identity(opA.cols))
  /\ UNCHANGED <<opA, opB, opC, writes, mulRes2, ctorVars, subVars, valVars>>

\* auto l = (A * B) * C;  auto r = A * (B * C);
Assoc ==
  /\ mulOp = "none"
  /\ mulOp' = "assoc"
  /\ mulRes' = Mul(Mul(opA, opB), opC)
  /\ mulRes2' = Mul(opA, Mul(opB, opC))
  /\ UNCHANGED <<opA, opB, opC, writes, ctorVars, subVars, valVars>>

MulNext == WriteElem \/ Multiply \/ IdentityLeft \/ IdentityRight

SpecMul == MulInit /\ [][MulNext]_vars

ChainNext == WriteElem \/ Assoc

SpecChain == ChainInit /\ [][ChainNext]_vars

----------------------------------------------------------------------------
\* Lazy subtraction node

\* Public members of class Matrix
MatrixMembers ==
  {"Rows", "Cols", "Dims", "IsRowVector", "IsColVector", "IsScalar", "IsVector",
   "GetColVector", "GetRowVector", "Identity", "operator()", "operator T",
   "operator+=", "operator+", "operator*=", "operator*", "Print"}

\* Members of struct Sub
SubMembers == {"lhs_type", "rhs_type", "_l", "_r", "rows", "cols", "operator()"}

\* What Sub reads from each operand type: lhs_type::rows, rhs_type::rows,
\* _lhs::cols, rhs_type::cols (static_assert, rows, cols) and _l(i, j), _r(i, j)
SubReads == {"rows", "cols", "operator()"}

Provides(v, name) ==
  IF v.kind = "Matrix" THEN name \in MatrixMembers
  ELSE IF v.kind = "Sub" THEN name \in SubMembers
  ELSE FALSE

\* Sub(const lhs_type& _l, const rhs_type& _r) : _l(_l), _r(_r): operands by value
SubNode(l, r) == [kind |-> "Sub", l |-> l, r |-> r]

RECURSIVE ShapeOf(_)
\* The shape an operand reports: <<rows, cols>>; for a Sub, rows is taken from
\* the left operand and cols from the right one.
ShapeOf(v) ==
  IF v.kind = "Sub" THEN <<ShapeOf(v.l)[1], ShapeOf(v.r)[2]>> ELSE <<v.rows, v.cols>>

RECURSIVE Compiles(_)
\* Whether the program that constructs v is well-formed: every name Sub reads
\* must be a member of the operand type, and the static_assert must hold.
Compiles(v) ==
  IF v.kind = "Sub"
  THEN /\ Compiles(v.l) /\ Compiles(v.r)
       /\ \A name \in SubReads : Provides(v.l, name) /\ Provides(v.r, name)
       /\ ShapeOf(v.l) = ShapeOf(v.r)
  ELSE v.kind = "Matrix"

RECURSIVE Depth(_)
Depth(v) ==
  IF v.kind = "Sub"
  THEN 1 + (IF Depth(v.l) > Depth(v.r) THEN Depth(v.l) ELSE Depth(v.r))
  ELSE 0

RECURSIVE ElementQuery(_, _, _)
\* constexpr auto operator()(size_t i, size_t j) const { return _l(i, j) - _r(i, j); }
ElementQuery(v, i, j) ==
  IF v.kind = "Sub"
  THEN ElementQuery(v.l, i, j) - ElementQuery(v.r, i, j)
  ELSE At(v, i, j)

\* Two matrices A and B of one shape.
SubInit ==
  /\ CtorIdle
  /\ \E R \in Dim, C \in Dim, ba \in 0..MaxVal, bb \in 0..MaxVal :
       /\ opA = Seeded(R, C, ba + MaxDim * MaxDim)
       /\ opB = Seeded(R, C, bb)
  /\ opC = NoObject
  /\ writes = 0 /\ mulOp = "none" /\ mulRes = NoObject /\ mulRes2 = NoObject
  /\ SubIdle /\ ValIdle

Operands == {opA, opB} \cup (IF node.kind = "Sub" THEN {node} ELSE {})

\* Expr::Sub<L, R> n(l, r); with l, r among A, B and the node built before
MakeSub ==
  /\ \E l \in Operands, r \in Operands :
       /\ Depth(SubNode(l, r)) <= MaxDepth
       /\ node' = SubNode(l, r)
  /\ subQuery' = NoQuery
  /\ UNCHANGED <<mulVars, ctorVars, valVars>>

\* n(i, j), indices in range
Query ==
  /\ node.kind = "Sub"
  /\ \E i \in 0..(opA.rows - 1), j \in 0..(opA.cols - 1) :
       subQuery' = [done |-> TRUE, i |-> i, j |-> j,
                    compiles |-> Compiles(node),
                    val |-> ElementQuery(node, i, j)]
  /\ UNCHANGED <<node, mulVars, ctorVars, valVars>>

SubNext == MakeSub \/ Query

SpecSub == SubInit /\ [][SubNext]_vars

----------------------------------------------------------------------------
\* Objects and their storage

\* A plausible slip: the copy refers to the source's elements (a shallow copy).
CopyStorageShared(dstBlk, srcBlk) == srcBlk

\* Matrix(const Matrix&) = default / Matrix(Matrix&&) = default with a
\* std::array member: the new object's elements live in its own array.
CopyStorage(dstBlk, srcBlk) == dstBlk

\* auto operator+=(...) / auto operator*=(...) { ...; return *this; }: the
\* return type is deduced without a reference, a temporary copy is returned.
ReturnedStorage(recvBlk) == "tmp"

Val(n) == MkMatrix(inst[n].rows, inst[n].cols, mem[inst[n].blk])
Live == {n \in Names : inst[n].live}
SameShape(x, y) == inst[x].rows = inst[y].rows /\ inst[x].cols = inst[y].cols

\* The storage after a new object in block newBlk is initialised from srcBlk.
CopyInto(m, newBlk, srcBlk) == [m EXCEPT ![newBlk] = m[srcBlk]]

\* Bookkeeping of one statement that declares dst from a returned local in "tmp"
Declare(dst, R, C, m) ==
  LET db == CopyStorage(dst, "tmp")
  IN /\ inst' = [inst EXCEPT ![dst] = [live |-> TRUE, rows |-> R, cols |-> C, blk |-> db]]
     /\ mem' = CopyInto(m, db, "tmp")

Step(op, recv, blk, expect) ==
  /\ steps < MaxSteps
  /\ steps' = steps + 1
  /\ last' = [op |-> op, recv |-> recv, blk |-> blk, expect |-> expect]
  /\ UNCHANGED <<ctorVars, mulVars, subVars>>

\* Two objects a and b of one shape; c is declared later.
ValInit ==
  /\ CtorIdle /\ MulIdle /\ SubIdle
  /\ \E R \in Dim, C \in Dim :
       /\ inst = [n \in Names |->
                    IF n = "c" THEN NoInst
                    ELSE [live |-> TRUE, rows |-> R, cols |-> C, blk |-> n]]
       /\ mem = [k \in Blocks |->
                    IF k = "a" THEN SeedData(R, C, 0)
                    ELSE IF k = "b" THEN SeedData(R, C, MaxVal)
                    ELSE << >>]
  /\ last = NoStatement
  /\ steps = 0

\* Matrix dst(src);
CopyConstruct ==
  \E dst \in Names \ Live, src \in Live :
    LET db == CopyStorage(dst, inst[src].blk)
    IN /\ Step("copy", dst, db, << >>)
       /\ inst' = [inst EXCEPT ![dst] = [inst[src] EXCEPT !.blk = db]]
       /\ mem' = CopyInto(mem, db, inst[src].blk)

\* dst = src;  (std::array assignment copies element by element)
CopyAssign ==
  \E dst \in Live, src \in Live :
    /\ SameShape(dst, src)
    /\ Step("assign", dst, inst[dst].blk, << >>)
    /\ mem' = CopyInto(mem, inst[dst].blk, inst[src].blk)
    /\ UNCHANGED inst

\* dst = std::move(src);  (moving arithmetic elements copies them)
MoveAssign ==
  \E dst \in Live, src \in Live :
    /\ SameShape(dst, src)
    /\ Step("move", dst, inst[dst].blk, << >>)
    /\ mem' = CopyInto(mem, inst[dst].blk, inst[src].blk)
    /\ UNCHANGED inst

\* x(i, j) = v;
WriteAt ==
  \E x \in Live, v \in {0} :
    \E i \in 0..(inst[x].rows - 1), j \in 0..(inst[x].cols - 1) :
      /\ Step("write", x, inst[x].blk, << >>)
      /\ mem' = [mem EXCEPT ![inst[x].blk] = SetAt(@, inst[x].rows, i, j, v)]
      /\ UNCHANGED inst

\* x(index) = v;  requires(IsVector())
WriteIndex ==
  \E x \in Live, v \in {0} :
    /\ IsVector(inst[x])
    /\ \E index \in 0..(Dims(inst[x].rows, inst[x].cols) - 1) :
         /\ Step("write", x, inst[x].blk, << >>)
         /\ mem' = [mem EXCEPT ![inst[x].blk][index + 1] = v]
         /\ UNCHANGED inst

\* x += y;
PlusAssign ==
  \E x \in Live, y \in Live :
    /\ SameShape(x, y)
    /\ LET sum == PlusAssignLoop(mem[inst[x].blk], Val(y), 0)
           rb  == ReturnedStorage(inst[x].blk)
       IN /\ Step("+=", x, rb, << >>)
          /\ mem' = [[mem EXCEPT ![inst[x].blk] = sum] EXCEPT ![rb] = sum]
    /\ UNCHANGED inst

\* (x += y) += z;
ChainedPlusAssign ==
  \E x \in Live, y \in Live, z \in Live :
    /\ SameShape(x, y) /\ SameShape(x, z)
    /\ LET sum  == PlusAssignLoop(mem[inst[x].blk], Val(y), 0)
           rb   == ReturnedStorage(inst[x].blk)
           m1   == [[mem EXCEPT ![inst[x].blk] = sum] EXCEPT ![rb] = sum]
           zval == MkMatrix(inst[z].rows, inst[z].cols, m1[inst[z].blk])
           sum2 == PlusAssignLoop(m1[rb], zval, 0)
       IN /\ Step("(+=)+=", x, rb, PlusAssignLoop(sum, zval, 0))
          /\ mem' = [m1 EXCEPT ![rb] = sum2]
    /\ UNCHANGED inst

\* x *= k;
TimesAssign ==
  \E x \in Live, k \in {2} :
    LET prod == TimesAssignData(mem[inst[x].blk], k)
        rb   == ReturnedStorage(inst[x].blk)
    IN /\ Step("*=", x, rb, << >>)
       /\ mem' = [[mem EXCEPT ![inst[x].blk] = prod] EXCEPT ![rb] = prod]
       /\ UNCHANGED inst

\* (x *= k) *= m;
ChainedTimesAssign ==
  \E x \in Live, k \in 2..(MaxVal + 1), m \in 2..(MaxVal + 1) :
    LET prod == TimesAssignData(mem[inst[x].blk], k)
        rb   == ReturnedStorage(inst[x].blk)
        m1   == [[mem EXCEPT ![inst[x].blk] = prod] EXCEPT ![rb] = prod]
    IN /\ Step("(*=)*=", x, rb, TimesAssignData(prod, m))
       /\ mem' = [m1 EXCEPT ![rb] = TimesAssignData(m1[rb], m)]
       /\ UNCHANGED inst

\* auto dst = x + y;   operator+: auto result(*this); return result += other;
PlusInto ==
  \E dst \in Names \ Live, x \in Live, y \in Live :
    /\ SameShape(x, y)
    /\ LET lb == CopyStorage("tmp", inst[x].blk)
           m1 == CopyInto(mem, lb, inst[x].blk)
           m2 == [m1 EXCEPT ![lb] = PlusAssignLoop(@, Val(y), 0)]
           m3 == CopyInto(m2, ReturnedStorage(lb), lb)
       IN /\ Step("+", dst, "tmp", << >>)
          /\ Declare(dst, inst[x].rows, inst[x].cols, m3)

\* auto dst = x * k;   operator*: auto result(*this); return result *= scalar;
ScaleInto ==
  \E dst \in Names \ Live, x \in Live, k \in {2} :
    LET lb == CopyStorage("tmp", inst[x].blk)
        m1 == CopyInto(mem, lb, inst[x].blk)
        m2 == [m1 EXCEPT ![lb] = TimesAssignData(@, k)]
        m3 == CopyInto(m2, ReturnedStorage(lb), lb)
    IN /\ Step("*k", dst, "tmp", << >>)
       /\ Declare(dst, inst[x].rows, inst[x].cols, m3)

\* auto dst = x * y;   a product that yields a Matrix
ProductInto ==
  \E dst \in Names \ Live, x \in Live, y \in Live :
    LET r == Mul(Val(x), Val(y))
    IN /\ r.kind = "Matrix"
       /\ Step("*", dst, "tmp", << >>)
       /\ Declare(dst, r.rows, r.cols, [mem EXCEPT !["tmp"] = r.data_])

\* auto dst = x.GetRowVector(row);
RowInto ==
  \E dst \in Names \ Live, x \in Live :
    \E row \in 0..(inst[x].rows - 1) :
      /\ Step("row", dst, "tmp", << >>)
      /\ Declare(dst, 1, inst[x].cols,
                 [mem EXCEPT !["tmp"] = GetRowVector(Val(x), row).data_])

\* auto dst = x.GetColVector(col);
ColInto ==
  \E dst \in Names \ Live, x \in Live :
    \E col \in 0..(inst[x].cols - 1) :
      /\ Step("col", dst, "tmp", << >>)
      /\ Declare(dst, inst[x].rows, 1,
                 [mem EXCEPT !["tmp"] = GetColVector(Val(x), col).data_])

ValNext ==
  \/ CopyConstruct \/ CopyAssign \/ MoveAssign \/ WriteAt \/ WriteIndex
  \/ PlusAssign \/ TimesAssign
  \/ PlusInto \/ ScaleInto \/ ProductInto \/ RowInto \/ ColInto

SpecVal == ValInit /\ [][ValNext]_vars

\* Statements that use the value a compound assignment returns.
RetNext ==
  \/ CopyConstruct \/ WriteAt \/ PlusAssign \/ TimesAssign
  \/ ChainedPlusAssign \/ ChainedTimesAssign

SpecRet == ValInit /\ [][RetNext]_vars

----------------------------------------------------------------------------
\* Claims about construction

\* The literal disagrees with the declared shape.
LiteralMismatch ==
  \/ Len(ctorList) # ctorShape[1]
  \/ \E r \in 1..Len(ctorList) : Len(ctorList[r]) # ctorShape[2]

\* C3: nested-literal construction of Matrix<T, R, C> (the constructor from a
\* list of lists, which exists for R > 1 and C > 1) ends in invalid_argument
\* whenever the outer length differs from R or an inner length differs from C,
\* and then the caller holds no instance (nothing truncated, padded or partly
\* filled); when every length matches, construction succeeds.
C3_NestedCtorAllOrNothing ==
  ctorOp = "nested" =>
    IF LiteralMismatch
    THEN ctorOutcome = "invalid_argument" /\ ctorObj = NoObject
    ELSE ctorOutcome = "constructed" /\ ctorObj.kind = "Matrix"
         /\ ctorObj.rows = ctorShape[1] /\ ctorObj.cols = ctorShape[2]

\* The constructor threw on a later row, after it had already stored a row.
C3_Witness ==
  /\ ctorOp = "nested"
  /\ ctorOutcome = "invalid_argument"
  /\ ctorPartial # ZeroData(ctorShape[1], ctorShape[2])
  /\ ctorObj = NoObject

\* C4: a flat literal whose length is not exactly Dims() is rejected at
\* construction: it is neither accepted with the missing elements left at zero
\* nor with the extra elements written past the R*C element storage.
C4_FlatCtorRejectsWrongLength ==
  (ctorOp = "flat" /\ Len(ctorList) # Dims(ctorShape[1], ctorShape[2])) =>
    /\ ctorOutcome = "invalid_argument"
    /\ ctorObj = NoObject
    /\ ctorOverrun = 0

\* C7: after nested-literal construction, reading (i, j) for every i < R and
\* j < C returns the value supplied at row i, position j; the offset map
\* (row, col) -> row + col*R is injective on the index pairs and stays inside
\* [0, R*C).
C7_NestedRoundTrip ==
  (ctorOp = "nested" /\ ctorOutcome = "constructed") =>
    LET R == ctorShape[1]
        C == ctorShape[2]
    IN /\ \A i \in 0..(R - 1), j \in 0..(C - 1) :
            /\ At(ctorObj, i, j) = ctorList[i + 1][j + 1]
            /\ Offset(i, j, R) \in 0..(R * C - 1)
            /\ \A i2 \in 0..(R - 1), j2 \in 0..(C - 1) :
                 Offset(i, j, R) = Offset(i2, j2, R) => (i = i2 /\ j = j2)
       /\ ctorRead.done => ctorRead.val = ctorList[ctorRead.row + 1][ctorRead.col + 1]

\* An off-diagonal element of a constructed matrix was read back.
C7_Witness ==
  /\ ctorOp = "nested"
  /\ ctorOutcome = "constructed"
  /\ ctorRead.done
  /\ ctorRead.row = 0
  /\ ctorRead.col = 1
  /\ ctorRead.val # 0

----------------------------------------------------------------------------
\* Claims about products

RECURSIVE SumUpTo(_, _)
\* f[0] + ... + f[n-1]
SumUpTo(f, n) == IF n = 0 THEN 0 ELSE SumUpTo(f, n - 1) + f[n - 1]

\* sum over k in [0, K) of L(i, k) * M(k, j)
SumOfProducts(L, M, i, j) ==
  SumUpTo([k \in 0..(L.cols - 1) |-> At(L, i, k) * At(M, k, j)], L.cols)

\* C1: for L of shape R x K and M of shape K x C, L * M has shape (R, C) and
\* element (i, j) is the sum over k of L(i, k) * M(k, j); when R = 1 and C = 1
\* the product is that single sum as a bare T.
C1_ProductIsSumOfProducts ==
  mulOp = "mul" =>
    IF opA.rows = 1 /\ opB.cols = 1
    THEN mulRes = Scalar(SumOfProducts(opA, opB, 0, 0))
    ELSE /\ mulRes.kind = "Matrix"
         /\ mulRes.rows = opA.rows
         /\ mulRes.cols = opB.cols
         /\ Len(mulRes.data_) = opA.rows * opB.cols
         /\ \A i \in 0..(opA.rows - 1), j \in 0..(opB.cols - 1) :
              At(mulRes, i, j) = SumOfProducts(opA, opB, i, j)

\* A product of two general matrices with a two-term inner sum was evaluated.
C1_Witness ==
  /\ mulOp = "mul"
  /\ opA.rows = 2 /\ opA.cols = 2 /\ opB.cols = 2
  /\ mulRes.kind = "Matrix"
  /\ At(mulRes, 1, 0) # 0

\* C5 as stated: Identity(n) * M and M * Identity(n) are M itself, element for
\* element and with the shape of M, also for a 1 x 1 M.
C5_IdentityLawAsStated ==
  mulOp \in {"idl", "idr"} => mulRes = opA

\* C5, amended: Identity(n) * M and M * Identity(n) equal M element for element
\* with the shape of M, except that for a 1 x 1 M the product is the bare T
\* holding M's single element.
C5_IdentityLaw ==
  mulOp \in {"idl", "idr"} =>
    IF IsScalar(opA) THEN mulRes = Scalar(At(opA, 0, 0)) ELSE mulRes = opA

\* The identity was multiplied onto a general matrix from the left.
C5_Witness ==
  /\ mulOp = "idl"
  /\ opA.rows = 2 /\ opA.cols = 2
  /\ mulRes = opA

\* A bare T read as the 1 x 1 result it stands for.
AsGrid(v) == IF v.kind = "T" THEN MkMatrix(1, 1, v.data_) ELSE v

\* C6: for A (P x Q), B (Q x S), C (S x U), both (A*B)*C and A*(B*C) are
\* defined by the operator* overloads and are equal P x U results.
C6_ProductAssociative ==
  mulOp = "assoc" =>
    /\ mulRes.kind # "none"
    /\ mulRes2.kind # "none"
    /\ AsGrid(mulRes) = AsGrid(mulRes2)
    /\ AsGrid(mulRes).rows = opA.rows
    /\ AsGrid(mulRes).cols = opC.cols

----------------------------------------------------------------------------
\* Claims about the lazy subtraction node

\* C2: for a Sub node over Matrices or other Sub nodes, every element query
\* (i, j) in range returns left(i, j) - right(i, j), obtained by querying the
\* operands, and leaves the operands as they were.
C2_SubQueryIsDifference ==
  subQuery.done =>
    /\ subQuery.compiles
    /\ subQuery.val = ElementQuery(node.l, subQuery.i, subQuery.j)
                      - ElementQuery(node.r, subQuery.i, subQuery.j)

\* C8: Matrix provides every member a Sub node reads from an operand type, so
\* a Sub node can be built with a Matrix as left operand, right operand or both.
C8_MatrixSatisfiesOperandContract ==
  node.kind = "Sub" =>
    /\ \A name \in SubReads : Provides(opA, name) /\ Provides(opB, name)
    /\ Compiles(node)

----------------------------------------------------------------------------
\* Claims about value semantics

\* The objects a statement may change: its receiver (compound assignment,
\* assignment, element write) or the object it declares.
Untouched == {n \in Live : n # last'.recv}

\* C9: every Matrix owns its elements: no two objects share storage, a mutation
\* of one object (+=, *=, assignment, an element write) changes the elements of
\* no other object, and +, *, GetRowVector, GetColVector leave their operands
\* unchanged.
C9_ValueSemantics ==
  [][ /\ \A n \in Untouched : inst'[n] = inst[n] /\ mem'[inst[n].blk] = mem[inst[n].blk]
      /\ \A n1 \in Names, n2 \in Names :
           (inst'[n1].live /\ inst'[n2].live /\ n1 # n2) => inst'[n1].blk # inst'[n2].blk
    ]_vars

\* c was copied from a and then written: the two now differ.
C9_Witness ==
  /\ inst["c"].live
  /\ last.op = "write"
  /\ last.recv = "c"
  /\ SameShape("a", "c")
  /\ mem[inst["c"].blk] # mem[inst["a"].blk]
  /\ mem[inst["a"].blk] = SeedData(inst["a"].rows, inst["a"].cols, 0)

\* C10: operator+= and operator*= return a reference to the receiver: the
\* returned value is the receiver itself, so after (a += b) += c the receiver
\* equals a0 + b + c and after (a *= k) *= m it equals a0 * k * m.
C10_CompoundAssignReturnsReceiver ==
  last.op \in {"(+=)+=", "(*=)*="} =>
    /\ last.blk = inst[last.recv].blk
    /\ mem[inst[last.recv].blk] = last.expect

====
